---- MODULE Spec2Model ----
(***************************************************************************)
(* A model of notebooks/programs-expanded-comparison.ipynb run top to      *)
(* bottom: cell 4 prints one row per report of `things`, cell 5 loads the  *)
(* validation set from val.pkl into `data`, cell 6 defines error(b) and    *)
(* cell 7 prints one row per budget.                                       *)
(*                                                                         *)
(* Files are read-only and each is read once, so a file's content is drawn *)
(* when the file is opened: `f` is the report or baseline file being read, *)
(* `valpkl` is val.pkl.  A text is a sequence of tokens, a pickle stream a *)
(* sequence of frames.                                                     *)
(* `stdout` keeps the label of every row written and `row` the whole of    *)
(* the last one: the program never reads its output back.  A name that is  *)
(* not bound holds None; the counts e and a hold 0 outside a call.         *)
(***************************************************************************)
EXTENDS Integers, Sequences, FiniteSets, TLC

VARIABLES pc, i, j, f, summary, exact, valpkl, pos, data, result, e, a,
          stdout, row, err, opened, consumed

vars == <<pc, i, j, f, summary, exact, valpkl, pos, data, result, e, a,
          stdout, row, err, opened, consumed>>

----------------------------------------------------------------------------
(* Bounds of the model *)

\* longest validation stream (frames of val.pkl)
MaxData == 2

\* longest baseline prediction list
MaxPreds == 2

\* most lines in a report file
MaxLines == 2

----------------------------------------------------------------------------
(* The hard-coded listings *)

\* the keys of `things` in sorted order instead of insertion order
thingsSorted == <<"b32s100", "b32s25", "b64s100", "b64s25">>

\* cell 3: the keys of `things`, in insertion order
things == <<"b32s25", "b64s25", "b32s100", "b64s100">>

\* cell 7: the budget listing
budgets == <<16, 32, 64, 128, 141, 229, 256, 393, 512, 687>>

\* the name cell 5 opens
ValPath == "val.pkl"

----------------------------------------------------------------------------
(* Values *)

Min(x, y) == IF x <= y THEN x ELSE y

SeqsUpTo(S, n) == UNION {[1..k -> S] : k \in 0..n}

\* Python's None
NoneVal == [type |-> "none"]

\* program texts
Codes == {"move", "turnLeft"}

\* a file that is not there, and a file with content
Missing == [exists |-> FALSE]

File(c) == [exists |-> TRUE, content |-> c]

----------------------------------------------------------------------------
(* What a call gives: a value, or an exception *)

Return(v) == [raises |-> "", value |-> v]

Raise(x) == [raises |-> x]

----------------------------------------------------------------------------
(* JSON texts.  A text is a sequence of tokens: a whole object literal, a   *)
(* number, a bracket, or a brace that opens an object closed on a later     *)
(* line.                                                                    *)

Obj(r) == [t |-> "obj", v |-> r]

Num == [t |-> "num"]

LBrace == [t |-> "{"]

LBrack == [t |-> "["]

RBrack == [t |-> "]"]

\* json.loads / json.load on a text: one complete JSON value and nothing
\* after it, else JSONDecodeError
JsonLoads(text) ==
  IF Len(text) = 1 /\ text[1].t = "obj" THEN Return([type |-> "dict", v |-> text[1].v])
  ELSE IF Len(text) = 1 /\ text[1].t = "num" THEN Return([type |-> "num"])
  ELSE IF /\ Len(text) >= 2
          /\ text[1].t = "["
          /\ text[Len(text)].t = "]"
          /\ \A k \in 2..(Len(text) - 1) : text[k].t = "obj"
       THEN Return([type |-> "list",
                    items |-> [k \in 1..(Len(text) - 2) |-> text[k + 1].v]])
  ELSE Raise("JSONDecodeError")

----------------------------------------------------------------------------
(* Cell 4: the report rows *)

\* the first line of the first report, as the recorded output shows it
FirstRecord ==
  [total |-> 443, correct |-> 134, syntax_error |-> 0, runtime_exception |-> 16, done |-> TRUE]

\* first lines of two of the reports, as the recorded output shows them
SummaryRecords ==
  { [total |-> 443, correct |-> 134, syntax_error |-> 0, runtime_exception |-> 16, done |-> TRUE],
    [total |-> 443, correct |-> 157, syntax_error |-> 0, runtime_exception |-> 15, done |-> TRUE] }

\* an object that lacks four of the five fields
PartialRecord == [total |-> 443]

\* the lines a report file is made of: a summary record, an object that is
\* no summary, a number, the opening brace of a document spread over several
\* lines, a blank line, a record followed by more text
ReportLines ==
  {<<Obj(s)>> : s \in SummaryRecords}
    \cup {<<Obj(PartialRecord)>>, <<Num>>, <<LBrace>>, <<>>}
    \cup {<<Obj(FirstRecord), Num>>}

ReportFiles == {Missing} \cup {File(c) : c \in SeqsUpTo(ReportLines, MaxLines)}

\* the lines of a file, one after the other
RECURSIVE Flatten(_)
Flatten(lines) == IF lines = <<>> THEN <<>> ELSE Head(lines) \o Flatten(Tail(lines))

\* loadSummary parsing the whole file as one document: json.load(open(path))
loadSummaryWholeFile(file) ==
  IF ~file.exists THEN Raise("FileNotFoundError") ELSE JsonLoads(Flatten(file.content))

\* json.loads(next(open(path)))
loadSummary(file) ==
  IF ~file.exists THEN Raise("FileNotFoundError")
  ELSE IF file.content = <<>> THEN Raise("StopIteration")
  ELSE JsonLoads(file.content[1])

ExactMatchResults == {[exact |-> 15, total |-> 443], [exact |-> 18, total |-> 443]}

\* get_exact_match(path), of program_synthesis.analysis.load_results: the
\* counts of the whole report, or a failure
get_exact_match(file) ==
  {Raise("Exception")} \cup {Return(x) : x \in ExactMatchResults}

----------------------------------------------------------------------------
(* Cell 5: the validation set *)

Frame(c) == [op |-> "rec", code |-> c]

Corrupt == [op |-> "corrupt"]

ValFiles ==
  {Missing} \cup
  {File(c) : c \in SeqsUpTo({Frame(c) : c \in Codes} \cup {Corrupt}, MaxData)}

\* pickle.load(f, encoding='latin-1') with f at frame `at`
pickle_load(stream, at) ==
  IF at > Len(stream) THEN Raise("EOFError")
  ELSE IF stream[at].op # "rec" THEN Raise("UnpicklingError")
  ELSE Return([code |-> stream[at].code])

\* a handler that catches everything: a bare except
HandledAny(exc) == TRUE

\* cell 5's only handler: except EOFError
Handled(exc) == exc = "EOFError"

\* data.insert(0, x)
ListPrepend(l, x) == <<x>> \o l

\* data.append(x)
ListAppend(l, x) == Append(l, x)

----------------------------------------------------------------------------
(* Cell 6: error(b) *)

Predictions == [output : Codes, is_correct : BOOLEAN]

\* the texts a baseline file holds: a list of predictions, a list cut before
\* its end, a number, an object
BaselineTexts ==
  {<<LBrack>> \o [k \in 1..Len(ps) |-> Obj(ps[k])] \o <<RBrack>> :
      ps \in SeqsUpTo(Predictions, MaxPreds)}
    \cup {<<LBrack>>, <<Num>>, <<Obj(PartialRecord)>>}

BaselineFiles == {Missing} \cup {File(c) : c \in BaselineTexts}

\* with open(...) as f: result = json.load(f)
jsonLoadFile(file) ==
  IF ~file.exists THEN Raise("FileNotFoundError") ELSE JsonLoads(file.content)

\* zip(xs, ys) of two lists
zip(xs, ys) == [k \in 1..Min(Len(xs), Len(ys)) |-> <<xs[k], ys[k]>>]

\* sum([...]) of a list of booleans
RECURSIVE sum(_)
sum(s) == IF s = <<>> THEN 0 ELSE (IF Head(s) THEN 1 ELSE 0) + sum(Tail(s))

\* SumExact with each prediction looked up anywhere in the validation set
\* instead of at its own position
SumExactAnywhere(res, dat) ==
  IF res.type # "list" THEN Raise("TypeError")
  ELSE Return(sum([k \in DOMAIN res.items |->
                     \E m \in DOMAIN dat : res.items[k].output = dat[m].code]))

\* SumExact with a zip that refuses arguments of different lengths
SumExactStrict(res, dat) ==
  IF res.type # "list" THEN Raise("TypeError")
  ELSE IF Len(res.items) # Len(dat) THEN Raise("ValueError")
  ELSE LET pairs == zip(res.items, dat)
       IN  Return(sum([k \in DOMAIN pairs |-> pairs[k][1].output = pairs[k][2].code]))

\* SumExact with every prediction compared to the first validation example
SumExactFirst(res, dat) ==
  IF res.type # "list" THEN Raise("TypeError")
  ELSE IF dat = <<>> THEN Return(0)
  ELSE Return(sum([k \in DOMAIN res.items |-> res.items[k].output = dat[1].code]))

\* SumExact with e kept from one call to the next instead of starting at 0
SumExactAccumulated(res, dat) ==
  IF res.type # "list" THEN Raise("TypeError")
  ELSE LET pairs == zip(res.items, dat)
           before == IF j > 1 THEN row.e ELSE 0
       IN  Return(before + sum([k \in DOMAIN pairs |-> pairs[k][1].output = pairs[k][2].code]))

\* e = sum([r['output'] == d['code'] for r, d in zip(result, data)])
\* (a number cannot be iterated; iterating an object gives its keys, which
\* are strings and cannot be indexed by 'output')
SumExact(res, dat) ==
  IF res.type = "num" THEN Raise("TypeError")
  ELSE IF res.type = "dict"
       THEN (IF dat = <<>> THEN Return(0) ELSE Raise("TypeError"))
  ELSE LET pairs == zip(res.items, dat)
       IN  Return(sum([k \in DOMAIN pairs |-> pairs[k][1].output = pairs[k][2].code]))

\* SumCorrect over the pairs of zip(result, data) instead of over result
SumCorrectZipped(res) ==
  IF res.type # "list" THEN Raise("TypeError")
  ELSE LET pairs == zip(res.items, data)
       IN  Return(sum([k \in DOMAIN pairs |-> pairs[k][1].is_correct]))

\* SumCorrect that stops at the first prediction not flagged
SumCorrectPrefix(res) ==
  IF res.type # "list" THEN Raise("TypeError")
  ELSE Return(Cardinality({k \in DOMAIN res.items :
                             \A m \in 1..k : res.items[m].is_correct}))

\* a = sum([q['is_correct'] for q in result])
SumCorrect(res) ==
  IF res.type # "list" THEN Raise("TypeError")
  ELSE Return(sum([k \in DOMAIN res.items |-> res.items[k].is_correct]))

----------------------------------------------------------------------------
(* The run *)

Init ==
  /\ pc = "c4_summary"
  /\ i = 1
  /\ j = 1
  /\ f = NoneVal
  /\ summary = NoneVal
  /\ exact = NoneVal
  /\ valpkl = NoneVal
  /\ pos = 1
  /\ data = <<>>
  /\ result = NoneVal
  /\ e = 0
  /\ a = 0
  /\ stdout = <<>>
  /\ row = NoneVal
  /\ err = NoneVal
  /\ opened = <<>>
  /\ consumed = <<>>

\* an exception nothing handles ends the run where it is raised
Abort(exc) ==
  /\ pc' = "aborted"
  /\ err' = [exc |-> exc, at |-> pc]

\* cell 4, first argument of print: json.loads(next(open(path)))
LoadSummary ==
  /\ pc = "c4_summary"
  /\ \E file \in ReportFiles :
       LET out == loadSummary(file)
       IN  /\ f' = file
           /\ opened' = Append(opened, things[i])
           /\ IF out.raises # ""
              THEN Abort(out.raises) /\ UNCHANGED summary
              ELSE pc' = "c4_exact" /\ summary' = out.value /\ UNCHANGED err
  /\ UNCHANGED <<i, j, exact, valpkl, pos, data, result, e, a, stdout, row, consumed>>

\* cell 4, second argument of print: get_exact_match(path)
GetExactMatch ==
  /\ pc = "c4_exact"
  /\ \E out \in get_exact_match(f) :
       IF out.raises # ""
       THEN Abort(out.raises) /\ UNCHANGED <<exact, consumed>>
       ELSE /\ pc' = "c4_print"
            /\ exact' = out.value
            /\ consumed' = Append(consumed, things[i])
            /\ UNCHANGED err
  /\ UNCHANGED <<i, j, f, summary, valpkl, pos, data, result, e, a, stdout, row, opened>>

\* cell 4: print(name, ..., ...) and the loop's next turn
PrintReport ==
  /\ pc = "c4_print"
  /\ stdout' = Append(stdout, things[i])
  /\ row' = [label |-> things[i], summary |-> summary, exact |-> exact]
  /\ i' = i + 1
  /\ pc' = IF i = Len(things) THEN "c5_open" ELSE "c4_summary"
  /\ summary' = NoneVal
  /\ exact' = NoneVal
  /\ f' = NoneVal
  /\ UNCHANGED <<j, valpkl, pos, data, result, e, a, err, opened, consumed>>

\* cell 5: data = [] and open("../data/karel/val.pkl", "rb")
OpenVal ==
  /\ pc = "c5_open"
  /\ data' = <<>>
  /\ opened' = Append(opened, ValPath)
  /\ \E file \in ValFiles :
       /\ valpkl' = file
       /\ IF ~file.exists
          THEN Abort("FileNotFoundError") /\ UNCHANGED pos
          ELSE pc' = "c5_load" /\ pos' = 1 /\ UNCHANGED err
  /\ UNCHANGED <<i, j, f, summary, exact, result, e, a, stdout, row, consumed>>

\* cell 5: one turn of while True: data.append(pickle.load(f, ...)), inside
\* try ... except EOFError: pass
PickleLoad ==
  /\ pc = "c5_load"
  /\ LET out == pickle_load(valpkl.content, pos)
     IN  IF out.raises = ""
         THEN /\ data' = ListAppend(data, out.value)
              /\ pos' = pos + 1
              /\ UNCHANGED <<pc, err, consumed>>
         ELSE IF Handled(out.raises)
         THEN /\ pc' = "c7_load"
              /\ consumed' = Append(consumed, ValPath)
              /\ UNCHANGED <<data, pos, err>>
         ELSE Abort(out.raises) /\ UNCHANGED <<data, pos, consumed>>
  /\ UNCHANGED <<i, j, f, summary, exact, valpkl, result, e, a, stdout, row, opened>>

\* error(b): open the baseline file of budget b and json.load it
ErrorLoad ==
  /\ pc = "c7_load"
  /\ \E file \in BaselineFiles :
       LET out == jsonLoadFile(file)
       IN  /\ f' = file
           /\ opened' = Append(opened, ToString(budgets[j]))
           /\ IF out.raises # ""
              THEN Abort(out.raises) /\ UNCHANGED <<result, consumed>>
              ELSE /\ pc' = "c7_e"
                   /\ result' = out.value
                   /\ consumed' = Append(consumed, ToString(budgets[j]))
                   /\ UNCHANGED err
  /\ UNCHANGED <<i, j, summary, exact, valpkl, pos, data, e, a, stdout, row>>

\* error(b): e = sum(...)
ErrorExact ==
  /\ pc = "c7_e"
  /\ LET out == SumExact(result, data)
     IN  IF out.raises # ""
         THEN Abort(out.raises) /\ UNCHANGED e
         ELSE pc' = "c7_a" /\ e' = out.value /\ UNCHANGED err
  /\ UNCHANGED <<i, j, f, summary, exact, valpkl, pos, data, result, a, stdout, row,
                 opened, consumed>>

\* error(b): a = sum(...)
ErrorCorrect ==
  /\ pc = "c7_a"
  /\ LET out == SumCorrect(result)
     IN  IF out.raises # ""
         THEN Abort(out.raises) /\ UNCHANGED a
         ELSE pc' = "c7_print" /\ a' = out.value /\ UNCHANGED err
  /\ UNCHANGED <<i, j, f, summary, exact, valpkl, pos, data, result, e, stdout, row,
                 opened, consumed>>

\* error(b) returns e, a; cell 7 prints b and both, and the loop's next turn
PrintBudget ==
  /\ pc = "c7_print"
  /\ stdout' = Append(stdout, ToString(budgets[j]))
  /\ row' = [label |-> ToString(budgets[j]), e |-> e, a |-> a]
  /\ j' = j + 1
  /\ pc' = IF j = Len(budgets) THEN "done" ELSE "c7_load"
  /\ result' = NoneVal
  /\ e' = 0
  /\ a' = 0
  /\ f' = NoneVal
  /\ UNCHANGED <<i, summary, exact, valpkl, pos, data, err, opened, consumed>>

Next ==
  \/ LoadSummary
  \/ GetExactMatch
  \/ PrintReport
  \/ OpenVal
  \/ PickleLoad
  \/ ErrorLoad
  \/ ErrorExact
  \/ ErrorCorrect
  \/ PrintBudget

Spec == Init /\ [][Next]_vars

\* the interpreter runs one statement after the other: a step that can be
\* taken is taken
FairSpec == Spec /\ WF_vars(Next)

----------------------------------------------------------------------------
(* Vocabulary of the properties *)

IsPrefix(s, t) == Len(s) <= Len(t) /\ \A k \in 1..Len(s) : s[k] = t[k]

\* inside error(b), after json.load gave a list
InError == pc \in {"c7_e", "c7_a", "c7_print"}

\* error(b) is about to return e, a
AtReturn == pc = "c7_print"

\* the positions at which prediction and ground truth are the same text
MatchingIndices(items, dat) ==
  {k \in 1..Min(Len(items), Len(dat)) : items[k].output = dat[k].code}

\* the positions of the predictions flagged is_correct
FlaggedIndices(items) == {k \in 1..Len(items) : items[k].is_correct}

\* a list value with its items rearranged by p, and a list rearranged by p
PermuteResult(res, p) == [res EXCEPT !.items = [k \in 1..Len(res.items) |-> res.items[p[k]]]]

PermuteList(l, p) == [k \in 1..Len(l) |-> l[p[k]]]

\* the records a well-formed stream of frames holds
Decode(frames) == [k \in 1..Len(frames) |-> [code |-> frames[k].code]]

WellFormedStream(file) ==
  file.exists /\ \A k \in 1..Len(file.content) : file.content[k].op = "rec"

\* the texts of the model that are no complete JSON value
BrokenTexts == {<<>>, <<LBrace>>, <<LBrack>>, <<Obj(FirstRecord), Num>>}

----------------------------------------------------------------------------
(* The exact count and the correct count of error(b) *)

\* C1: the exact count error(b) computes is the number of positions k, up to
\* the length of the shorter of the prediction list and the validation set,
\* at which the prediction's output is the ground truth's code.
C1_ExactCountIsPositional ==
  (pc \in {"c7_a", "c7_print"} /\ result.type = "list")
    => e = Cardinality(MatchingIndices(result.items, data))

\* two predictions against two examples, one of them an exact match
C1_Witness ==
  /\ AtReturn
  /\ Len(result.items) = 2
  /\ Len(data) = 2
  /\ e = 1

\* C2 as stated: with an empty validation set error(b) returns (0, 0),
\* whatever the baseline file holds.
C2_EmptyValidationGivesZeroZero ==
  (AtReturn /\ valpkl.content = <<>> /\ data = <<>>) => (e = 0 /\ a = 0)

\* C2, amended: with an empty validation set error(b) returns 0 as the exact
\* count and, as the correct count, the number of predictions of the baseline
\* file flagged is_correct.
C2_EmptyValidationGivesZeroAndFlagged ==
  (AtReturn /\ valpkl.content = <<>> /\ data = <<>>)
    => (e = 0 /\ a = Cardinality(FlaggedIndices(result.items)))

\* an empty validation set and a baseline with a flagged prediction
C2_Witness ==
  /\ AtReturn
  /\ valpkl.content = <<>>
  /\ data = <<>>
  /\ Len(result.items) >= 1
  /\ a >= 1

\* C3: whatever the two lengths, error(b) on a prediction list raises nothing:
\* it returns two counts, and the exact count is the one of the two lists cut
\* to the shorter length.
C3_LengthMismatchTolerated ==
  /\ (pc = "aborted" /\ err.at \in {"c7_e", "c7_a"}) => result.type # "list"
  /\ AtReturn =>
       LET m == Min(Len(result.items), Len(data))
       IN  /\ e \in 0..m
           /\ a \in 0..Len(result.items)
           /\ SumExact([result EXCEPT !.items = SubSeq(result.items, 1, m)],
                       SubSeq(data, 1, m)) = Return(e)

\* error(b) returns with more predictions than validation examples
C3_Witness ==
  /\ AtReturn
  /\ Len(result.items) > Len(data)
  /\ Len(data) >= 1
  /\ e = Len(data)

\* C10: the correct count is the number of flagged predictions of the whole
\* baseline file: the validation set has no part in it, no rearrangement of
\* the predictions changes it, and it is at most the number of predictions.
C10_CorrectCountOverWholeResult ==
  AtReturn =>
    /\ a = Cardinality({k \in 2..(Len(f.content) - 1) : f.content[k].v.is_correct})
    /\ a <= Len(result.items)
    /\ \A p \in Permutations(1..Len(result.items)) :
         SumCorrect(PermuteResult(result, p)) = Return(a)

\* the correct count is above the validation set's length and above the
\* bound of the exact count
C10_Witness ==
  /\ AtReturn
  /\ a > Len(data)
  /\ a > Min(Len(result.items), Len(data))
  /\ Len(data) >= 1

\* C6: rearranging the predictions and the validation set of the same length
\* in the same way changes nothing of what error(b) returns.
C6_SamePermutationSameResult ==
  (AtReturn /\ Len(result.items) = Len(data)) =>
    \A p \in Permutations(1..Len(data)) :
      /\ SumExact(PermuteResult(result, p), PermuteList(data, p)) = Return(e)
      /\ SumCorrect(PermuteResult(result, p)) = Return(a)

\* rearranging the predictions alone changes the exact count, and so does
\* rearranging the validation set alone
C6_Witness ==
  /\ AtReturn
  /\ \E p \in Permutations(1..Len(result.items)) :
       SumExact(PermuteResult(result, p), data) # Return(e)
  /\ \E p \in Permutations(1..Len(data)) :
       SumExact(result, PermuteList(data, p)) # Return(e)

----------------------------------------------------------------------------
(* The validation-set load *)

\* C4: on a stream of n well-formed records the load reads them one at a
\* time, keeps them in stream order, and ends at end-of-stream with exactly
\* the n records in `data`, the run going on to the next cell.
C4_LoadTerminatesInOrder ==
  /\ [](pc = "c5_load" =>
          /\ pos \in 1..(Len(valpkl.content) + 1)
          /\ data = Decode(SubSeq(valpkl.content, 1, pos - 1)))
  /\ (pc = "c5_load" /\ WellFormedStream(valpkl))
       ~> (pc = "c7_load" /\ j = 1 /\ data = Decode(valpkl.content))

\* the load has ended on a stream of two different records
C4_Witness ==
  /\ pc = "c7_load"
  /\ j = 1
  /\ Len(data) = 2
  /\ data[1] # data[2]

----------------------------------------------------------------------------
(* The rows and the failures *)

\* the rows and the inputs, in the order of the two listings
Listing ==
  <<"b32s25", "b64s25", "b32s100", "b64s100",
    "16", "32", "64", "128", "141", "229", "256", "393", "512", "687">>

Inputs ==
  <<"b32s25", "b64s25", "b32s100", "b64s100", "val.pkl",
    "16", "32", "64", "128", "141", "229", "256", "393", "512", "687">>

\* the inputs that have a row
Rows(s) == SelectSeq(s, LAMBDA x : x # "val.pkl")

\* C5: a read that fails ends the run there: the stages after a read are
\* reached only with a file that exists and parses, the stages after the
\* load only with a stream of well-formed records; once the run has ended on
\* a failure, the rows printed are those of the inputs before the failing
\* one, that input was opened once, and no step follows.
C5_FailureAbortsRun ==
  /\ pc \in {"c4_exact", "c4_print"} =>
       f.exists /\ f.content # <<>> /\ f.content[1] \notin BrokenTexts
  /\ InError => f.exists /\ f.content \notin BrokenTexts
  /\ pc \in {"c5_load", "c7_load", "c7_e", "c7_a", "c7_print", "done"} => valpkl.exists
  /\ pc \in {"c7_load", "c7_e", "c7_a", "c7_print", "done"} => WellFormedStream(valpkl)
  /\ pc = "aborted" =>
       /\ Len(opened) >= 1
       /\ stdout = Rows(SubSeq(opened, 1, Len(opened) - 1))
       /\ \A k \in 1..(Len(opened) - 1) : opened[k] # opened[Len(opened)]
       /\ ~ENABLED Next

\* the run ended on a baseline file that does not parse, after six rows
C5_Witness ==
  /\ pc = "aborted"
  /\ err.exc = "JSONDecodeError"
  /\ err.at = "c7_load"
  /\ Len(stdout) = 6

\* C7: the rows come in the order of the listings, the four reports and then
\* the ten budgets, each once; a row is printed after its input was read to
\* the end and before the next input is opened.
C7_RowsInListingOrder ==
  /\ IsPrefix(stdout, Listing)
  /\ pc = "done" => stdout = Listing
  /\ IsPrefix(opened, Inputs)
  /\ IsPrefix(consumed, opened)
  /\ IsPrefix(stdout, Rows(consumed))
  /\ Len(Rows(opened)) <= Len(stdout) + 1

\* a run without failure has ended
C7_Witness ==
  /\ pc = "done"
  /\ Len(stdout) = 14
  /\ Len(opened) = 15

\* C8: error(b) leaves the validation set as it was loaded, starts with no
\* local of the call before, and returns what the budget's own file and the
\* validation set give.
C8_BaselinesIndependent ==
  /\ pc \in {"c7_load", "c7_e", "c7_a", "c7_print", "done"} =>
       data = Decode(valpkl.content)
  /\ pc = "c7_load" => (result = NoneVal /\ e = 0 /\ a = 0)
  /\ AtReturn =>
       LET preds == [k \in 1..(Len(f.content) - 2) |-> f.content[k + 1].v]
       IN  /\ e = Cardinality(MatchingIndices(preds, Decode(valpkl.content)))
           /\ a = Cardinality(FlaggedIndices(preds))

\* a budget after the first returns another pair than the budget before it
C8_Witness ==
  /\ AtReturn
  /\ j >= 2
  /\ row.e >= 1
  /\ e = 0
  /\ Len(data) = 2

----------------------------------------------------------------------------
(* loadSummary *)

\* C9 as stated: loadSummary returns only the record of the first line, and
\* a first line that is no complete record fails with a parse error.
C9_FirstLineRecordOrParseError ==
  /\ pc = "c4_exact" =>
       /\ f.content[1] \in {<<Obj(r)>> : r \in SummaryRecords \cup {PartialRecord}}
       /\ summary = [type |-> "dict", v |-> f.content[1][1].v]
  /\ (pc = "aborted" /\ err.at = "c4_summary" /\ f.exists /\ f.content # <<>>) =>
       err.exc = "JSONDecodeError"

\* C9, amended: loadSummary returns the value of the first line, whatever the
\* lines after it: the five fields of a summary record unchanged, and as well
\* an object with other fields or a number; it fails with a parse error when
\* the first line is no complete JSON value.
C9_FirstLineValueOrParseError ==
  /\ pc = "c4_exact" =>
       /\ f.exists
       /\ f.content # <<>>
       /\ f.content[1] \notin BrokenTexts
       /\ Len(f.content[1]) = 1
       /\ f.content[1][1].t = "obj" => summary = [type |-> "dict", v |-> f.content[1][1].v]
       /\ f.content[1][1].t = "num" => summary = [type |-> "num"]
  /\ (pc = "aborted" /\ err.at = "c4_summary" /\ f.exists /\ f.content # <<>>) =>
       (err.exc = "JSONDecodeError" /\ f.content[1] \in BrokenTexts)

\* a number on the first line is returned, with a line after it that is no
\* JSON value
C9_Witness ==
  /\ pc = "c4_exact"
  /\ Len(f.content) = 2
  /\ f.content[1] = <<Num>>
  /\ f.content[2] = <<LBrace>>
  /\ summary = [type |-> "num"]

====
